---------------------------- MODULE Spec2Model ----------------------------
(***************************************************************************)
(* Supervisor of the relayer (relayer/src/supervisor.rs): the reactor that *)
(* polls chain subscriptions, worker status messages and commands, and     *)
(* routes events to per-object workers.                                    *)
(*                                                                         *)
(* Registry, WorkerMap, FilterPolicy, SpawnContext, Object and CmdEffect   *)
(* are collaborators whose code is outside supervisor.rs; they are         *)
(* modelled from their documented contracts.                               *)
(***************************************************************************)
EXTENDS Integers, Sequences, FiniteSets, TLC

VARIABLES
    pc,            \* position of the reactor in Supervisor::run
    chains,        \* Config.chains
    filter,        \* Config.global.filter
    handshake,     \* Config.handshake_enabled()
    registry,      \* Registry: the chain ids that have a runtime handle
    workers,       \* WorkerMap: entries [id, object]
    next_id,       \* WorkerMap: the next WorkerId
    cache,         \* FilterPolicy: permission cache
    subscriptions, \* the (chain, subscription) list of run
    subq,          \* per chain, the batches waiting in its subscription
    worker_msg,    \* worker_msg_rx: Stopped messages in flight
    cmd_q,         \* cmd_rx: commands in flight
    live,          \* worker tasks that are running
    inbox,         \* per WorkerId, the worker's inbound channel
    expired,       \* clients whose state no longer satisfies the policy
    height,        \* per chain, the height of its last batch
    ninput,        \* what the environment has done so far
    last,          \* what the reactor's last step did
    handled        \* per chain, the height of the last batch processed

vars == << pc, chains, filter, handshake, registry, workers, next_id, cache,
           subscriptions, subq, worker_msg, cmd_q, live, inbox, expired,
           height, ninput, last, handled >>

\* ------------------------------------------------------------------ bounds

\* Largest WorkerId the WorkerMap hands out in a run.
MaxWorkerId == 4
\* Capacity of a worker's inbound channel.
InboxCap == 2
\* What the environment does in a run: batches emitted, commands sent,
\* worker tasks ended and client states changed, all together.
MaxInputs == 2
\* Longest event list of a batch that collect_events is applied to on its own.
MaxEvents == 2

\* ------------------------------------------------------------- identifiers

ChainIds == {"A", "B", "C"}
ChannelIds == {"c0", "c1"}
NoId == "-"

\* A ChainConfig is a record of the chain id and the channels its packet
\* filter allows. Config.chains when the supervisor is constructed.
InitChains == << [id |-> "A", allow |-> {"c0"}], [id |-> "B", allow |-> {"c0"}] >>

\* ------------------------------------------------------------------ Object

Variants == {"Client", "Connection", "Channel", "Packet"}

\* Routing keys. Client and Connection objects carry one identifier each,
\* fixed by the pair of chains; Channel and Packet objects carry the source
\* channel (the port is the single port "transfer").
Objects ==
    { o \in [variant : Variants, src : ChainIds, dst : ChainIds,
             chan : ChannelIds \cup {NoId}] :
        /\ o.src # o.dst
        /\ (o.variant \in {"Client", "Connection"}) <=> (o.chan = NoId) }

Obj(v, s, d, ch) == [variant |-> v, src |-> s, dst |-> d, chan |-> ch]

src_chain_id(o) == o.src
dst_chain_id(o) == o.dst
Mentions(o, id) == o.src = id \/ o.dst = id

\* --------------------------------------------------------- sequence helpers

Range(s) == { s[i] : i \in DOMAIN s }

\* All orders in which a finite set can be iterated.
Orders(S) ==
    { f \in [1 .. Cardinality(S) -> S] : \A x \in S : \E i \in DOMAIN f : f[i] = x }

\* ------------------------------------------------------------------ Config

ConfigIds(cs) == { cs[i].id : i \in DOMAIN cs }
has_chain(cs, id) == id \in ConfigIds(cs)

\* Config::packets_on_channel_allowed: the chain is configured and its
\* packet filter lists the channel.
packets_on_channel_allowed(cs, chain, chan) ==
    \E i \in DOMAIN cs : cs[i].id = chain /\ chan \in cs[i].allow

\* ---------------------------------------------------------------- Registry
\* A supervisor state st is a record of the supervisor's fields:
\*   chains, registry, workers, next_id, cache
\* and of what its collaborators own on its behalf: live (running worker
\* tasks) and inbox (the workers' inbound channels).

\* Registry::spawn(id): fails when id is unknown to the live Config or when
\* the runtime does not start (id \in fails); the map is unchanged then.
RegistrySpawn(st, id, fails) ==
    IF has_chain(st.chains, id) /\ id \notin fails
    THEN [ok |-> TRUE, st |-> [st EXCEPT !.registry = @ \cup {id}]]
    ELSE [ok |-> FALSE, st |-> st]

\* Registry::get_or_spawn(id): the existing handle, else spawn.
RegistryGetOrSpawn(st, id, fails) ==
    IF id \in st.registry THEN [ok |-> TRUE, st |-> st]
    ELSE RegistrySpawn(st, id, fails)

\* Registry::shutdown(id): idempotent, tolerates unknown ids.
RegistryShutdown(st, id) == [st EXCEPT !.registry = @ \ {id}]

\* --------------------------------------------------------------- WorkerMap
\* The map is kept as the set of its (object, handle) entries, a handle being
\* the WorkerId; live holds the worker tasks that are running.

WorkerObjects(ws) == { w.object : w \in ws }
WorkersContains(ws, o) == o \in WorkerObjects(ws)
HandleOf(ws, o) == CHOOSE w \in ws : w.object = o

\* WorkerMap::get_or_spawn: the existing worker, or a new one with a fresh
\* WorkerId, an empty inbound channel and a running task.
WorkersGetOrSpawn(st, o) ==
    IF WorkersContains(st.workers, o)
    THEN [worker |-> HandleOf(st.workers, o), st |-> st]
    ELSE LET w == [id |-> st.next_id, object |-> o]
         IN  [worker |-> w,
              st |-> [st EXCEPT !.workers = @ \cup {w},
                                !.live = @ \cup {w},
                                !.next_id = @ + 1]]

\* WorkerMap::remove_stopped(id, object): removes the mapping iff the worker
\* stored for object has this id.
WorkersRemoveStopped(ws, id, o) ==
    { w \in ws : ~(w.object = o /\ w.id = id) }

\* WorkerMap::to_notify(chain): the workers whose source chain is chain.
to_notify(ws, chain) == { w \in ws : w.object.src = chain }

\* WorkerMap::workers_for_chain(chain): source or destination is chain.
workers_for_chain(ws, chain) == { w \in ws : Mentions(w.object, chain) }

\* Sending on a worker's inbound channel: fails when the worker task has ended
\* (closed) or the channel is full.
CanSend(st, w) ==
    w \in st.live /\ w.id \in DOMAIN st.inbox /\ Len(st.inbox[w.id]) < InboxCap

Send(st, w, msg) ==
    IF CanSend(st, w)
    THEN [ok |-> TRUE, st |-> [st EXCEPT !.inbox[w.id] = Append(@, msg)]]
    ELSE [ok |-> FALSE, st |-> st]

\* ------------------------------------------------------------ FilterPolicy

\* Cache keys: (chain hosting the client, chain the client tracks).
ClientKeys == { k \in ChainIds \X ChainIds : k[1] # k[2] }

\* The client an object depends on: a Client object names the client on its
\* destination chain; the other variants are resolved from the source chain.
ClientKey(o) ==
    IF o.variant = "Client" THEN << o.dst, o.src >> ELSE << o.src, o.dst >>

\* FilterPolicy::control_{client,conn,chan,packet}_object: a cached decision
\* is reused; on a miss the chain is queried through the Registry (Err when
\* no handle can be had) and the decision is cached.
Control(st, o, fails) ==
    LET k == ClientKey(o)
    IN  IF st.cache[k] # "None"
        THEN [perm |-> st.cache[k], st |-> st]
        ELSE LET r == RegistryGetOrSpawn(st, k[1], fails)
                 p == IF k \in expired THEN "Deny" ELSE "Allow"
             IN  IF r.ok
                 THEN [perm |-> p, st |-> [r.st EXCEPT !.cache[k] = p]]
                 ELSE [perm |-> "Err", st |-> r.st]

\* ---------------------------------------------------- Supervisor: filters

client_filter_enabled == filter
channel_filter_enabled == filter

relay_packets_on_channel(st, chain_id, chan) ==
    IF ~channel_filter_enabled THEN TRUE
    ELSE packets_on_channel_allowed(st.chains, chain_id, chan)

\* Fault: relay_on_object without the early return of the unfiltered case.
relay_on_object_no_bail(st, chain_id, o, fails) ==
    IF o.variant = "Packet" /\ ~relay_packets_on_channel(st, chain_id, o.chan)
    THEN [allow |-> FALSE, asked |-> "channel", st |-> st]
    ELSE LET c == Control(st, o, fails)
         IN  [allow |-> (c.perm = "Allow"), asked |-> "policy", st |-> c.st]

\* Fault: relay_on_object that applies the client filter only.
relay_on_object_no_channel_filter(st, chain_id, o, fails) ==
    IF ~channel_filter_enabled /\ ~client_filter_enabled
    THEN [allow |-> TRUE, asked |-> "none", st |-> st]
    ELSE LET c == Control(st, o, fails)
         IN  [allow |-> (c.perm = "Allow"), asked |-> "policy", st |-> c.st]

\* Supervisor::relay_on_object. asked tells which filter decided:
\* "none" (no filter enabled), "channel" or "policy".
relay_on_object(st, chain_id, o, fails) ==
    IF ~channel_filter_enabled /\ ~client_filter_enabled
    THEN [allow |-> TRUE, asked |-> "none", st |-> st]
    ELSE IF o.variant = "Packet" /\ ~relay_packets_on_channel(st, chain_id, o.chan)
    THEN [allow |-> FALSE, asked |-> "channel", st |-> st]
    ELSE LET c == Control(st, o, fails)
         IN  [allow |-> (c.perm = "Allow"), asked |-> "policy", st |-> c.st]

\* ------------------------------------------------------------ SpawnContext

\* The objects a scan of the chains discovers (their open channels), in the
\* order the scan visits them.
ScanObjects ==
    << Obj("Packet", "A", "B", "c0"), Obj("Packet", "B", "C", "c0") >>

\* One discovered object: kept if both chains are configured, the filters
\* allow it and both handles resolve; then get-or-spawn its worker.
SpawnObject(st, o, fails) ==
    IF ~(has_chain(st.chains, o.src) /\ has_chain(st.chains, o.dst)) THEN st
    ELSE LET f == relay_on_object(st, o.src, o, fails)
             s == RegistryGetOrSpawn(f.st, o.src, fails)
             d == RegistryGetOrSpawn(s.st, o.dst, fails)
         IN  IF ~f.allow THEN f.st
             ELSE IF ~s.ok THEN s.st
             ELSE IF ~d.ok THEN d.st
             ELSE WorkersGetOrSpawn(d.st, o).st

RECURSIVE SpawnAll(_, _, _)
SpawnAll(st, objs, fails) ==
    IF objs = << >> THEN st
    ELSE SpawnAll(SpawnObject(st, Head(objs), fails), Tail(objs), fails)

\* SpawnContext::spawn_workers
spawn_workers(st, fails) == SpawnAll(st, ScanObjects, fails)

\* SpawnContext::spawn_workers_for_chain(id)
spawn_workers_for_chain(st, id, fails) ==
    SpawnAll(st, SelectSeq(ScanObjects, LAMBDA o : Mentions(o, id)), fails)

\* SpawnContext::shutdown_workers_for_chain(id): drops every worker whose
\* object mentions id; the tasks end later and then emit Stopped.
shutdown_workers_for_chain(st, id) ==
    [st EXCEPT !.workers = { w \in @ : ~Mentions(w.object, id) }]

\* ------------------------------------------------------------------ events

ConnectionOpenKinds == {"OpenInitConnection", "OpenTryConnection", "OpenAckConnection"}
ChannelOpenKinds == {"OpenInitChannel", "OpenTryChannel"}
PacketKinds == {"SendPacket", "TimeoutPacket", "WriteAcknowledgement", "CloseInitChannel"}

\* An IbcEvent as the classifier sees it: its kind, the counterparty chain and
\* the channel its attributes resolve to, and whether the Object constructors
\* succeed on it (ok = FALSE: ill-formed attributes or a failed chain query).
Ev(k, d, ch, ok) == [kind |-> k, dst |-> d, chan |-> ch, ok |-> ok]
NewBlockEv == Ev("NewBlock", NoId, NoId, TRUE)

\* Object::for_update_client, Object::*_from_*_open_events, Object::for_*:
\* the object of the given variant between the batch's chain and the event's
\* counterparty.
ObjectFor(variant, e, src) ==
    Obj(variant, src, e.dst,
        IF variant \in {"Client", "Connection"} THEN NoId ELSE e.chan)

\* Fault: a classifier that routes an UpdateClient whether or not its object
\* has a worker.
Routes_update_client_unchecked(e, src, ws) ==
    IF e.kind = "UpdateClient" THEN
        IF e.ok THEN << ObjectFor("Client", e, src) >> ELSE << >>
    ELSE IF e.kind \in ConnectionOpenKinds THEN
        IF handshake /\ e.ok THEN << ObjectFor("Connection", e, src) >> ELSE << >>
    ELSE IF e.kind \in ChannelOpenKinds THEN
        IF handshake /\ e.ok THEN << ObjectFor("Channel", e, src) >> ELSE << >>
    ELSE IF e.kind \in {"OpenAckChannel", "OpenConfirmChannel"} THEN
        (IF e.ok THEN << ObjectFor("Client", e, src), ObjectFor("Packet", e, src) >>
         ELSE << >>)
        \o (IF handshake /\ e.ok /\ e.kind = "OpenAckChannel"
            THEN << ObjectFor("Channel", e, src) >> ELSE << >>)
    ELSE IF e.kind \in PacketKinds /\ e.ok THEN << ObjectFor("Packet", e, src) >>
    ELSE << >>

\* Fault: a classifier that treats OpenConfirmChannel as it treats
\* OpenAckChannel.
Routes_open_confirm_to_channel(e, src, ws) ==
    IF e.kind = "UpdateClient" THEN
        IF e.ok /\ WorkersContains(ws, ObjectFor("Client", e, src))
        THEN << ObjectFor("Client", e, src) >> ELSE << >>
    ELSE IF e.kind \in ConnectionOpenKinds THEN
        IF handshake /\ e.ok THEN << ObjectFor("Connection", e, src) >> ELSE << >>
    ELSE IF e.kind \in ChannelOpenKinds THEN
        IF handshake /\ e.ok THEN << ObjectFor("Channel", e, src) >> ELSE << >>
    ELSE IF e.kind \in {"OpenAckChannel", "OpenConfirmChannel"} THEN
        (IF e.ok THEN << ObjectFor("Client", e, src), ObjectFor("Packet", e, src) >>
         ELSE << >>)
        \o (IF handshake /\ e.ok THEN << ObjectFor("Channel", e, src) >> ELSE << >>)
    ELSE IF e.kind \in PacketKinds /\ e.ok THEN << ObjectFor("Packet", e, src) >>
    ELSE << >>

\* Fault: a classifier that does not look at handshake_enabled.
Routes_handshake_unchecked(e, src, ws) ==
    IF e.kind = "UpdateClient" THEN
        IF e.ok /\ WorkersContains(ws, ObjectFor("Client", e, src))
        THEN << ObjectFor("Client", e, src) >> ELSE << >>
    ELSE IF e.kind \in ConnectionOpenKinds THEN
        IF e.ok THEN << ObjectFor("Connection", e, src) >> ELSE << >>
    ELSE IF e.kind \in ChannelOpenKinds THEN
        IF e.ok THEN << ObjectFor("Channel", e, src) >> ELSE << >>
    ELSE IF e.kind = "OpenAckChannel" THEN
        IF e.ok THEN << ObjectFor("Client", e, src), ObjectFor("Packet", e, src),
                        ObjectFor("Channel", e, src) >>
        ELSE << >>
    ELSE IF e.kind = "OpenConfirmChannel" THEN
        IF e.ok THEN << ObjectFor("Client", e, src), ObjectFor("Packet", e, src) >>
        ELSE << >>
    ELSE IF e.kind \in PacketKinds /\ e.ok THEN << ObjectFor("Packet", e, src) >>
    ELSE << >>

\* The objects one event is pushed to, in the order of the pushes
\* (one arm of the match in collect_events).
Routes(e, src, ws) ==
    IF e.kind = "NewBlock" THEN << >>
    ELSE IF e.kind = "UpdateClient" THEN
        IF e.ok /\ WorkersContains(ws, ObjectFor("Client", e, src))
        THEN << ObjectFor("Client", e, src) >> ELSE << >>
    ELSE IF e.kind \in ConnectionOpenKinds THEN
        IF ~handshake THEN << >>
        ELSE IF e.ok THEN << ObjectFor("Connection", e, src) >> ELSE << >>
    ELSE IF e.kind \in ChannelOpenKinds THEN
        IF ~handshake THEN << >>
        ELSE IF e.ok THEN << ObjectFor("Channel", e, src) >> ELSE << >>
    ELSE IF e.kind = "OpenAckChannel" THEN
        (IF e.ok THEN << ObjectFor("Client", e, src) >> ELSE << >>)
        \o (IF e.ok THEN << ObjectFor("Packet", e, src) >> ELSE << >>)
        \o (IF handshake /\ e.ok THEN << ObjectFor("Channel", e, src) >> ELSE << >>)
    ELSE IF e.kind = "OpenConfirmChannel" THEN
        (IF e.ok THEN << ObjectFor("Client", e, src) >> ELSE << >>)
        \o (IF e.ok THEN << ObjectFor("Packet", e, src) >> ELSE << >>)
    ELSE IF e.kind \in PacketKinds THEN
        IF e.ok THEN << ObjectFor("Packet", e, src) >> ELSE << >>
    ELSE << >>

\* per_object.entry(object).or_default().push(event)
Push(per, o, e) ==
    IF o \in DOMAIN per THEN [per EXCEPT ![o] = Append(@, e)]
    ELSE [x \in DOMAIN per \cup {o} |-> IF x = o THEN << e >> ELSE per[x]]

RECURSIVE PushAll(_, _, _)
PushAll(per, objs, e) ==
    IF objs = << >> THEN per
    ELSE PushAll(Push(per, Head(objs), e), Tail(objs), e)

NoObjects == [x \in {} |-> << >>]

\* CollectedEvents::new. new_block is << >> for None and << e >> for Some(e).
NewCollected(h, chain_id) ==
    [height |-> h, chain_id |-> chain_id, new_block |-> << >>, per_object |-> NoObjects]

RECURSIVE CollectLoop_appends_new_block(_, _, _, _)
\* Fault: a loop that keeps every NewBlock of the batch.
CollectLoop_appends_new_block(col, events, src, ws) ==
    IF events = << >> THEN col
    ELSE LET e == Head(events)
             c == IF e.kind = "NewBlock"
                  THEN [col EXCEPT !.new_block = Append(@, e)]
                  ELSE [col EXCEPT !.per_object = PushAll(@, Routes(e, src, ws), e)]
         IN  CollectLoop_appends_new_block(c, Tail(events), src, ws)

RECURSIVE CollectLoop(_, _, _, _)
CollectLoop(col, events, src, ws) ==
    IF events = << >> THEN col
    ELSE LET e == Head(events)
             c == IF e.kind = "NewBlock"
                  THEN [col EXCEPT !.new_block = << e >>]
                  ELSE [col EXCEPT !.per_object = PushAll(@, Routes(e, src, ws), e)]
         IN  CollectLoop(c, Tail(events), src, ws)

\* Supervisor::collect_events
collect_events(ws, src, batch) ==
    CollectLoop(NewCollected(batch.height, src), batch.events, src, ws)

\* ----------------------------------------------------- Supervisor: batches

\* WorkerCmd messages on a worker's inbound channel.
EventsMsg(h, events, chain_id) ==
    [kind |-> "IbcEvents", height |-> h, events |-> events, chain |-> chain_id]
NewBlockMsg(h, chain_id) ==
    [kind |-> "NewBlock", height |-> h, events |-> << >>, chain |-> chain_id]
ClearPendingMsg(chain_id) ==
    [kind |-> "ClearPendingPackets", height |-> 0, events |-> << >>, chain |-> chain_id]

LogEntry(o, out, asked, id) ==
    [object |-> o, out |-> out, asked |-> asked, worker |-> id]

\* Fault: an iteration that goes on to the worker when a handle of the
\* object did not resolve.
DispatchObject_handles_unchecked(acc, src_id, h, o, events, fails) ==
    IF ~acc.ok THEN acc
    ELSE
    LET f == relay_on_object(acc.st, src_id, o, fails)
        s == RegistryGetOrSpawn(f.st, src_chain_id(o), fails)
        d == RegistryGetOrSpawn(s.st, dst_chain_id(o), fails)
        g == WorkersGetOrSpawn(d.st, o)
        m == Send(g.st, g.worker, EventsMsg(h, events, src_id))
    IN  IF ~f.allow THEN
            [st |-> f.st, ok |-> TRUE,
             log |-> Append(acc.log, LogEntry(o, "denied", f.asked, 0))]
        ELSE IF events = << >> THEN
            [st |-> f.st, ok |-> TRUE,
             log |-> Append(acc.log, LogEntry(o, "empty", f.asked, 0))]
        ELSE
            [st |-> m.st, ok |-> m.ok,
             log |-> Append(acc.log,
                        LogEntry(o, IF m.ok THEN "sent" ELSE "send_failed",
                                 f.asked, g.worker.id))]

\* Fault: an iteration that logs a failed send and lets the loop go on.
DispatchObject_send_unchecked(acc, src_id, h, o, events, fails) ==
    IF ~acc.ok THEN acc
    ELSE
    LET f == relay_on_object(acc.st, src_id, o, fails)
        s == RegistryGetOrSpawn(f.st, src_chain_id(o), fails)
        d == RegistryGetOrSpawn(s.st, dst_chain_id(o), fails)
        g == WorkersGetOrSpawn(d.st, o)
        m == Send(g.st, g.worker, EventsMsg(h, events, src_id))
    IN  IF ~f.allow THEN
            [st |-> f.st, ok |-> TRUE,
             log |-> Append(acc.log, LogEntry(o, "denied", f.asked, 0))]
        ELSE IF ~s.ok THEN
            [st |-> s.st, ok |-> FALSE,
             log |-> Append(acc.log, LogEntry(o, "no_src", f.asked, 0))]
        ELSE IF ~d.ok THEN
            [st |-> d.st, ok |-> FALSE,
             log |-> Append(acc.log, LogEntry(o, "no_dst", f.asked, 0))]
        ELSE
            [st |-> m.st, ok |-> TRUE,
             log |-> Append(acc.log,
                        LogEntry(o, IF m.ok THEN "sent" ELSE "send_failed",
                                 f.asked, g.worker.id))]

\* One iteration of the loop over collected.per_object in process_batch.
\* acc.ok = FALSE once a `?` has returned the error; log records what each
\* iteration that ran did.
DispatchObject(acc, src_id, h, o, events, fails) ==
    IF ~acc.ok THEN acc
    ELSE
    LET f == relay_on_object(acc.st, src_id, o, fails)
        s == RegistryGetOrSpawn(f.st, src_chain_id(o), fails)
        d == RegistryGetOrSpawn(s.st, dst_chain_id(o), fails)
        g == WorkersGetOrSpawn(d.st, o)
        m == Send(g.st, g.worker, EventsMsg(h, events, src_id))
    IN  IF ~f.allow THEN
            [st |-> f.st, ok |-> TRUE,
             log |-> Append(acc.log, LogEntry(o, "denied", f.asked, 0))]
        ELSE IF events = << >> THEN
            [st |-> f.st, ok |-> TRUE,
             log |-> Append(acc.log, LogEntry(o, "empty", f.asked, 0))]
        ELSE IF ~s.ok THEN
            [st |-> s.st, ok |-> FALSE,
             log |-> Append(acc.log, LogEntry(o, "no_src", f.asked, 0))]
        ELSE IF ~d.ok THEN
            [st |-> d.st, ok |-> FALSE,
             log |-> Append(acc.log, LogEntry(o, "no_dst", f.asked, 0))]
        ELSE
            [st |-> m.st, ok |-> m.ok,
             log |-> Append(acc.log,
                        LogEntry(o, IF m.ok THEN "sent" ELSE "send_failed",
                                 f.asked, g.worker.id))]

RECURSIVE DispatchLoop(_, _, _, _, _, _)
\* for (object, events) in collected.per_object.drain(), visited in `order`.
DispatchLoop(acc, src_id, h, per, order, fails) ==
    IF order = << >> THEN acc
    ELSE DispatchLoop(
            DispatchObject(acc, src_id, h, Head(order), per[Head(order)], fails),
            src_id, h, per, Tail(order), fails)

RECURSIVE SendAll(_, _, _)
SendAll(st, ws, msg) ==
    IF ws = {} THEN st
    ELSE LET w == CHOOSE x \in ws : TRUE
         IN  SendAll(Send(st, w, msg).st, ws \ {w}, msg)

\* for worker in targets { worker.send(msg)? }: the workers are visited in an
\* arbitrary order and the first failed send returns. The outcomes are: all
\* of them sent, or, when some send must fail, any set of the sendable ones
\* (those visited before the failing one) sent and the error returned.
ForwardOutcomes(st, targets, msg) ==
    LET good == { w \in targets : CanSend(st, w) }
    IN  IF good = targets
        THEN { [st |-> SendAll(st, targets, msg), ok |-> TRUE,
                notified |-> { w.id : w \in targets }] }
        ELSE { [st |-> SendAll(st, T, msg), ok |-> FALSE,
                notified |-> { w.id : w \in T }] : T \in SUBSET good }

\* Fault: process_batch that forwards the NewBlock to the workers that were
\* in the map before the loop over per_object.
process_batch_notify_before_spawn(st, src_id, batch, fails) ==
    LET collected == collect_events(st.workers, src_id, batch)
        per == collected.per_object
        start == [st |-> st, ok |-> TRUE, log |-> << >>]
        dispatched == { DispatchLoop(start, src_id, batch.height, per, order, fails) :
                          order \in Orders(DOMAIN per) }
    IN  UNION { IF acc.ok /\ collected.new_block # << >>
                THEN { [st |-> n.st, ok |-> n.ok, log |-> acc.log,
                        notified |-> n.notified] :
                         n \in ForwardOutcomes(acc.st,
                                  to_notify(st.workers, src_id),
                                  NewBlockMsg(batch.height, src_id)) }
                ELSE { [st |-> acc.st, ok |-> acc.ok, log |-> acc.log,
                        notified |-> {}] }
              : acc \in dispatched }

\* Fault: process_batch that forwards the NewBlock although the loop over
\* per_object returned an error.
process_batch_forward_after_error(st, src_id, batch, fails) ==
    LET collected == collect_events(st.workers, src_id, batch)
        per == collected.per_object
        start == [st |-> st, ok |-> TRUE, log |-> << >>]
        dispatched == { DispatchLoop(start, src_id, batch.height, per, order, fails) :
                          order \in Orders(DOMAIN per) }
    IN  UNION { IF collected.new_block # << >>
                THEN { [st |-> n.st, ok |-> acc.ok /\ n.ok, log |-> acc.log,
                        notified |-> n.notified] :
                         n \in ForwardOutcomes(acc.st,
                                  to_notify(acc.st.workers, src_id),
                                  NewBlockMsg(batch.height, src_id)) }
                ELSE { [st |-> acc.st, ok |-> acc.ok, log |-> acc.log,
                        notified |-> {}] }
              : acc \in dispatched }

\* Supervisor::process_batch: every outcome over the drain order of
\* per_object and the iteration order of to_notify.
process_batch(st, src_id, batch, fails) ==
    LET collected == collect_events(st.workers, src_id, batch)
        per == collected.per_object
        start == [st |-> st, ok |-> TRUE, log |-> << >>]
        dispatched == { DispatchLoop(start, src_id, batch.height, per, order, fails) :
                          order \in Orders(DOMAIN per) }
    IN  UNION { IF acc.ok /\ collected.new_block # << >>
                THEN { [st |-> n.st, ok |-> n.ok, log |-> acc.log,
                        notified |-> n.notified] :
                         n \in ForwardOutcomes(acc.st,
                                  to_notify(acc.st.workers, src_id),
                                  NewBlockMsg(batch.height, src_id)) }
                ELSE { [st |-> acc.st, ok |-> acc.ok, log |-> acc.log,
                        notified |-> {}] }
              : acc \in dispatched }

\* Fault: clear_pending_packets that signals only the workers whose source
\* chain is the cancelled one.
clear_pending_packets_source_only(st, chain_id) ==
    { [st |-> n.st, ok |-> n.ok, log |-> << >>, notified |-> n.notified] :
        n \in ForwardOutcomes(st, to_notify(st.workers, chain_id),
                              ClearPendingMsg(chain_id)) }

\* Supervisor::clear_pending_packets
clear_pending_packets(st, chain_id) ==
    { [st |-> n.st, ok |-> n.ok, log |-> << >>, notified |-> n.notified] :
        n \in ForwardOutcomes(st, workers_for_chain(st.workers, chain_id),
                              ClearPendingMsg(chain_id)) }

\* Supervisor::handle_batch: the result is only logged.
handle_batch(st, chain_id, batch, fails) ==
    IF batch.err = "none" THEN process_batch(st, chain_id, batch, fails)
    ELSE IF batch.err = "SubscriptionCancelled" THEN clear_pending_packets(st, chain_id)
    ELSE { [st |-> st, ok |-> FALSE, log |-> << >>, notified |-> {}] }

\* Fault: a Stopped message that removes the object's entry whatever its id.
handle_worker_msg_any_id(st, msg) ==
    [st EXCEPT !.workers = { w \in @ : w.object # msg.object }]

\* Supervisor::handle_worker_msg
handle_worker_msg(st, msg) ==
    [st EXCEPT !.workers = WorkersRemoveStopped(@, msg.id, msg.object)]

\* ---------------------------------------------------- Supervisor: commands

\* CmdEffect::or
EffectOr(a, b) ==
    IF a = "ConfigChanged" \/ b = "ConfigChanged" THEN "ConfigChanged" ELSE a

\* removed.or(added) on the result of the second call.
AndThen(effect, r) == [effect |-> EffectOr(effect, r.effect), st |-> r.st]

\* Fault: add_chain without the check for a chain that is configured.
add_chain_unchecked(st, config, fails) ==
    LET id == config.id
        pushed == [st EXCEPT !.chains = Append(@, config)]
        sp == RegistrySpawn(pushed, id, fails)
    IN  IF ~sp.ok
        THEN [effect |-> "Nothing",
              st |-> [sp.st EXCEPT !.chains = SelectSeq(@, LAMBDA c : c.id # id)]]
        ELSE [effect |-> "ConfigChanged",
              st |-> spawn_workers_for_chain(sp.st, id, fails)]

\* Fault: add_chain that keeps the pushed config when the runtime fails.
add_chain_no_rollback(st, config, fails) ==
    LET id == config.id
        pushed == [st EXCEPT !.chains = Append(@, config)]
        sp == RegistrySpawn(pushed, id, fails)
    IN  IF has_chain(st.chains, id)
        THEN [effect |-> "Nothing", st |-> st]
        ELSE IF ~sp.ok
        THEN [effect |-> "Nothing", st |-> sp.st]
        ELSE [effect |-> "ConfigChanged",
              st |-> spawn_workers_for_chain(sp.st, id, fails)]

\* Supervisor::add_chain
add_chain(st, config, fails) ==
    LET id == config.id
        pushed == [st EXCEPT !.chains = Append(@, config)]
        sp == RegistrySpawn(pushed, id, fails)
    IN  IF has_chain(st.chains, id)
        THEN [effect |-> "Nothing", st |-> st]
        ELSE IF ~sp.ok
        THEN [effect |-> "Nothing",
              st |-> [sp.st EXCEPT !.chains = SelectSeq(@, LAMBDA c : c.id # id)]]
        ELSE [effect |-> "ConfigChanged",
              st |-> spawn_workers_for_chain(sp.st, id, fails)]

\* Fault: remove_chain that leaves the chain's runtime in the Registry.
remove_chain_no_shutdown(st, id) ==
    LET dropped == [st EXCEPT !.chains = SelectSeq(@, LAMBDA c : c.id # id)]
    IN  IF ~has_chain(st.chains, id)
        THEN [effect |-> "Nothing", st |-> st]
        ELSE [effect |-> "ConfigChanged",
              st |-> shutdown_workers_for_chain(dropped, id)]

\* Supervisor::remove_chain
remove_chain(st, id) ==
    LET dropped == [st EXCEPT !.chains = SelectSeq(@, LAMBDA c : c.id # id)]
    IN  IF ~has_chain(st.chains, id)
        THEN [effect |-> "Nothing", st |-> st]
        ELSE [effect |-> "ConfigChanged",
              st |-> RegistryShutdown(shutdown_workers_for_chain(dropped, id), id)]

\* Fault: update_chain that adds before it removes.
update_chain_add_first(st, config, fails) ==
    LET added == add_chain(st, config, fails)
        removed == remove_chain(added.st, config.id)
    IN  [effect |-> EffectOr(removed.effect, added.effect), st |-> removed.st]

\* Fault: an update that puts the supervisor back as it was when the chain
\* could not be added again.
update_chain_restores(st, config, fails) ==
    LET removed == remove_chain(st, config.id)
        added == add_chain(removed.st, config, fails)
    IN  IF removed.effect = "ConfigChanged" /\ added.effect = "Nothing"
        THEN [effect |-> "Nothing", st |-> st]
        ELSE AndThen(removed.effect, added)

\* Supervisor::update_chain
update_chain(st, config, fails) ==
    LET removed == remove_chain(st, config.id)
    IN  AndThen(removed.effect, add_chain(removed.st, config, fails))

\* The SupervisorState snapshot of dump_state.
Snapshot(st) ==
    [chains |-> st.registry, workers |-> WorkerObjects(st.workers), sent |-> TRUE]
NoReply == [chains |-> {}, workers |-> {}, sent |-> FALSE]

\* Fault: dump_state that reports the chains of Config.
dump_state_config_chains(st, cmd) ==
    [effect |-> "Nothing", st |-> st,
     reply |-> IF cmd.open
               THEN [chains |-> ConfigIds(st.chains),
                     workers |-> WorkerObjects(st.workers), sent |-> TRUE]
               ELSE NoReply]

\* Supervisor::dump_state: try_send of the snapshot; a full or closed reply
\* channel (cmd.open = FALSE) drops it.
dump_state(st, cmd) ==
    [effect |-> "Nothing", st |-> st,
     reply |-> IF cmd.open THEN Snapshot(st) ELSE NoReply]

\* Supervisor::update_config
update_config(st, cmd, fails) ==
    IF cmd.op = "Add" THEN add_chain(st, cmd.config, fails)
    ELSE IF cmd.op = "Remove" THEN remove_chain(st, cmd.config.id)
    ELSE update_chain(st, cmd.config, fails)

\* Supervisor::handle_cmd
handle_cmd(st, cmd, fails) ==
    IF cmd.op = "DumpState" THEN dump_state(st, cmd)
    ELSE update_config(st, cmd, fails) @@ [reply |-> NoReply]

RECURSIVE InitSubsLoop(_, _, _, _)
\* The loop of init_subscriptions over Config.chains. nosub: the chains whose
\* subscribe() fails.
InitSubsLoop(acc, cs, fails, nosub) ==
    IF cs = << >> THEN acc
    ELSE LET id == Head(cs).id
             g == RegistryGetOrSpawn(acc.st, id, fails)
             next == IF ~g.ok THEN [acc EXCEPT !.st = g.st]
                     ELSE IF id \in nosub THEN [acc EXCEPT !.st = g.st]
                     ELSE [st |-> g.st, subs |-> Append(acc.subs, id)]
         IN  InitSubsLoop(next, Tail(cs), fails, nosub)

\* Supervisor::init_subscriptions: ok = FALSE is Err(NoChainsAvailable).
init_subscriptions(st, fails, nosub) ==
    LET r == InitSubsLoop([st |-> st, subs |-> << >>], st.chains, fails, nosub)
    IN  [ok |-> r.st.registry # {}, subs |-> r.subs, st |-> r.st]

\* ------------------------------------------------------------- environment
\* The reactor reads each channel at one point of its loop, so what the
\* environment does between two reads of a channel is seen at the later read
\* whenever it happened. The environment's actions are therefore placed at
\* the points where the reactor can tell the difference: a batch, a command
\* or a consumed message arrives before the subscription poll; a worker ends
\* before the subscription poll (its channel is closed to this tick's sends)
\* or before the status poll; a client state changes before a poll that
\* consults the policy.

\* The counterparty a chain's events name.
Peer(c) == IF c = "A" THEN "B" ELSE "A"

\* The event lists of the batches the chain runtimes emit in this model:
\* chain A emits packets on an allowed channel, on a channel its filter does
\* not list, towards two chains of which one is not configured at first, a
\* channel handshake event (routed to several objects), and NewBlock alone or
\* with a packet; the other chains emit packets towards their peer.
EventLists(c) ==
    IF c = "A"
    THEN { << Ev("SendPacket", "B", "c0", TRUE) >>,
           << Ev("SendPacket", "B", "c1", TRUE) >>,
           << Ev("SendPacket", "C", "c0", TRUE), Ev("SendPacket", "B", "c0", TRUE) >>,
           << Ev("OpenAckChannel", "B", "c0", TRUE) >>,
           << NewBlockEv >>,
           << NewBlockEv, Ev("SendPacket", "B", "c1", TRUE) >> }
    ELSE { << Ev("SendPacket", Peer(c), "c0", TRUE) >> }

Batch(h, events, err) == [height |-> h, events |-> events, err |-> err]

\* What the subscription of chain c delivers next: a batch at the next
\* height, or the error that ends the stream.
Batches(c) ==
    { Batch(height[c] + 1, evs, "none") : evs \in EventLists(c) }
    \cup { Batch(height[c], << >>, "SubscriptionCancelled") }

Cmd(op, config, open) == [op |-> op, config |-> config, open |-> open]
Config(i, allow) == [id |-> i, allow |-> allow]

\* The commands sent on the command channel in this model.
Cmds ==
    { Cmd("Add", Config(i, {"c0"}), TRUE) : i \in {"A", "C"} }
    \cup { Cmd("Update", Config(i, {"c0", "c1"}), TRUE) : i \in {"A", "C"} }
    \cup { Cmd("Remove", Config(i, {"c0"}), TRUE) : i \in ChainIds }
    \cup { Cmd("DumpState", Config("A", {"c0"}), open) : open \in BOOLEAN }

\* The clients whose state changes in this model.
Expiring == { << "A", "B" >>, << "B", "A" >> }

\* The chains that are unreachable while one handler runs (none, one of the
\* chains of the start, or all chains): the runtime of such a chain fails to
\* start and, if it is running already, its subscribe() fails.
FailSets == {{}, {"A"}, {"B"}, ChainIds}

\* Fault: a receive that takes the newest message of the channel.
try_recv_newest(q) == [msg |-> q[Len(q)], rest |-> SubSeq(q, 1, Len(q) - 1)]

\* try_recv on a channel that holds q: the oldest message, and what stays.
try_recv(q) == [msg |-> Head(q), rest |-> Tail(q)]

\* ------------------------------------------------------------------ state

Sup == [chains |-> chains, registry |-> registry, workers |-> workers,
        next_id |-> next_id, cache |-> cache, live |-> live, inbox |-> inbox]

Install(st) ==
    /\ st.next_id <= MaxWorkerId + 1
    /\ chains' = st.chains
    /\ registry' = st.registry
    /\ workers' = st.workers
    /\ next_id' = st.next_id
    /\ cache' = st.cache
    /\ live' = st.live
    /\ inbox' = st.inbox

Init ==
    /\ pc = "start"
    /\ chains = InitChains
    /\ filter \in BOOLEAN
    /\ handshake = FALSE  \* the default strategy relays packets only
    /\ registry = {}
    /\ workers = {}
    /\ next_id = 1
    /\ cache = [k \in ClientKeys |-> "None"]
    /\ subscriptions = << >>
    /\ subq = [c \in ChainIds |-> << >>]
    /\ worker_msg = << >>
    /\ cmd_q = << >>
    /\ live = {}
    /\ inbox = [i \in 1 .. MaxWorkerId |-> << >>]
    /\ expired = {}
    /\ height = [c \in ChainIds |-> 0]
    /\ ninput = 0
    /\ last = [op |-> "init"]
    /\ handled = [c \in ChainIds |-> 0]

\* ---------------------------------------------------------------- actions

\* run, before the loop: spawn_workers(Startup) and init_subscriptions()?.
Startup ==
    /\ pc = "start"
    /\ \E down \in FailSets :
         \E i \in { init_subscriptions(spawn_workers(Sup, down), down, down) } :
             /\ Install(i.st)
             /\ subscriptions' = IF i.ok THEN i.subs ELSE << >>
             /\ pc' = IF i.ok THEN "subs" ELSE "exit"
             /\ last' = [op |-> "startup", ok |-> i.ok]
    /\ UNCHANGED << filter, handshake, subq, worker_msg, cmd_q, expired, height,
                    ninput, handled >>

\* try_recv_multiple(&subscriptions) returned a batch: handle_batch.
PollBatch ==
    /\ pc = "subs"
    /\ \E c \in Range(subscriptions) :
         /\ subq[c] # << >>
         /\ \E rcv \in { try_recv(subq[c]) } :
              /\ \E fails \in FailSets :
                   \E out \in handle_batch(Sup, c, rcv.msg, fails) :
                      /\ Install(out.st)
                      /\ last' = [op |-> "batch", chain |-> c, batch |-> rcv.msg,
                                  ok |-> out.ok, log |-> out.log,
                                  notified |-> out.notified, down |-> fails]
              /\ subq' = [subq EXCEPT ![c] = rcv.rest]
              /\ handled' = IF rcv.msg.err = "none"
                            THEN [handled EXCEPT ![c] = rcv.msg.height]
                            ELSE handled
    /\ pc' = "wmsg"
    /\ UNCHANGED << filter, handshake, subscriptions, worker_msg, cmd_q, expired,
                    height, ninput >>

\* try_recv_multiple found no subscription ready.
NoBatch ==
    /\ pc = "subs"
    /\ \A c \in Range(subscriptions) : subq[c] = << >>
    /\ pc' = "wmsg"
    /\ UNCHANGED << chains, filter, handshake, registry, workers, next_id, cache,
                    subscriptions, subq, worker_msg, cmd_q, live, inbox, expired,
                    height, ninput, last, handled >>

\* worker_msg_rx.try_recv() returned Stopped(id, object): handle_worker_msg.
PollWorkerMsg ==
    /\ pc = "wmsg"
    /\ worker_msg # << >>
    /\ LET msg == Head(worker_msg)
       IN  /\ Install(handle_worker_msg(Sup, msg))
           /\ last' = [op |-> "stopped", id |-> msg.id, object |-> msg.object]
    /\ worker_msg' = Tail(worker_msg)
    /\ pc' = "cmd"
    /\ UNCHANGED << filter, handshake, subscriptions, subq, cmd_q, expired, height,
                    ninput, handled >>

NoWorkerMsg ==
    /\ pc = "wmsg"
    /\ worker_msg = << >>
    /\ pc' = "cmd"
    /\ UNCHANGED << chains, filter, handshake, registry, workers, next_id, cache,
                    subscriptions, subq, worker_msg, cmd_q, live, inbox, expired,
                    height, ninput, last, handled >>

\* Fault: a command arm that returns from run on NoChainsAvailable.
Rebuild_returns_on_no_chains(r, subs, fails, nosub) ==
    IF r.effect # "ConfigChanged"
    THEN [st |-> r.st, subs |-> subs, effect |-> r.effect, reply |-> r.reply,
          rebuilt |-> "no", exit |-> FALSE]
    ELSE LET i == init_subscriptions(r.st, fails, nosub)
         IN  IF i.ok
             THEN [st |-> i.st, subs |-> i.subs, effect |-> r.effect,
                   reply |-> r.reply, rebuilt |-> "yes", exit |-> FALSE]
             ELSE [st |-> i.st, subs |-> subs, effect |-> r.effect,
                   reply |-> r.reply, rebuilt |-> "NoChainsAvailable",
                   exit |-> TRUE]

\* The command arm of the loop: handle_cmd and, on ConfigChanged, the rebuild
\* of the subscription list. rebuilt: "no" (effect Nothing), "yes", or
\* "NoChainsAvailable" (the previous list is kept). exit: run returns the
\* error (the arm Err(e) => return Err(e.into()); init_subscriptions has no
\* error but NoChainsAvailable, so it is never taken).
Rebuild(r, subs, fails, nosub) ==
    IF r.effect # "ConfigChanged"
    THEN [st |-> r.st, subs |-> subs, effect |-> r.effect, reply |-> r.reply,
          rebuilt |-> "no", exit |-> FALSE]
    ELSE LET i == init_subscriptions(r.st, fails, nosub)
         IN  IF i.ok
             THEN [st |-> i.st, subs |-> i.subs, effect |-> r.effect,
                   reply |-> r.reply, rebuilt |-> "yes", exit |-> FALSE]
             ELSE [st |-> i.st, subs |-> subs, effect |-> r.effect,
                   reply |-> r.reply, rebuilt |-> "NoChainsAvailable",
                   exit |-> FALSE]

CmdStep(st, subs, cmd, fails, nosub) ==
    Rebuild(handle_cmd(st, cmd, fails), subs, fails, nosub)

\* cmd_rx.try_recv() returned a command. last keeps the command, its effect,
\* the chains that were unreachable and the workers it dropped.
PollCmd ==
    /\ pc = "cmd"
    /\ cmd_q # << >>
    /\ \E down \in FailSets :
         \E r \in { CmdStep(Sup, subscriptions, Head(cmd_q), down, down) } :
             /\ Install(r.st)
             /\ subscriptions' = r.subs
             \* a rebuilt list holds new receivers: what waited in the old
             \* ones is dropped with them
             /\ subq' = IF r.rebuilt = "yes" THEN [c \in ChainIds |-> << >>] ELSE subq
             /\ last' = [op |-> "cmd", cmd |-> Head(cmd_q), effect |-> r.effect,
                         reply |-> r.reply, rebuilt |-> r.rebuilt,
                         down |-> down,
                         dropped |-> workers \ r.st.workers]
             /\ pc' = IF r.exit THEN "exit" ELSE "subs"
    /\ cmd_q' = Tail(cmd_q)
    /\ UNCHANGED << filter, handshake, worker_msg, expired, height, ninput, handled >>

NoCmd ==
    /\ pc = "cmd"
    /\ cmd_q = << >>
    /\ pc' = "subs"
    /\ UNCHANGED << chains, filter, handshake, registry, workers, next_id, cache,
                    subscriptions, subq, worker_msg, cmd_q, live, inbox, expired,
                    height, ninput, last, handled >>

\* A chain runtime delivers a batch (or an error) on its subscription.
EmitBatch ==
    /\ pc = "subs"
    /\ ninput < MaxInputs
    /\ \E c \in Range(subscriptions) : \E b \in Batches(c) :
         /\ subq' = [subq EXCEPT ![c] = Append(@, b)]
         /\ height' = [height EXCEPT ![c] = b.height]
    /\ ninput' = ninput + 1
    /\ UNCHANGED << pc, chains, filter, handshake, registry, workers, next_id,
                    cache, subscriptions, worker_msg, cmd_q, live, inbox, expired,
                    last, handled >>

\* A client of the supervisor sends a command.
SendCmd ==
    /\ pc = "subs"
    /\ ninput < MaxInputs
    /\ \E cmd \in Cmds : cmd_q' = Append(cmd_q, cmd)
    /\ ninput' = ninput + 1
    /\ UNCHANGED << pc, chains, filter, handshake, registry, workers, next_id,
                    cache, subscriptions, subq, worker_msg, live, inbox, expired,
                    height, last, handled >>

\* A worker task takes a message from its inbound channel.
WorkerRecv ==
    /\ pc = "subs"
    /\ \E w \in live :
         /\ inbox[w.id] # << >>
         /\ inbox' = [inbox EXCEPT ![w.id] = Tail(@)]
    /\ UNCHANGED << pc, chains, filter, handshake, registry, workers, next_id,
                    cache, subscriptions, subq, worker_msg, cmd_q, live, expired,
                    height, ninput, last, handled >>

\* A worker task ends (its sender was dropped, or it failed) and emits
\* Stopped(id, object); its inbound channel goes with it.
WorkerStop ==
    /\ pc \in {"subs", "wmsg"}
    /\ ninput < MaxInputs
    /\ ninput' = ninput + 1
    /\ \E w \in live :
         /\ live' = live \ {w}
         /\ inbox' = [inbox EXCEPT ![w.id] = << >>]
         /\ worker_msg' = Append(worker_msg, [id |-> w.id, object |-> w.object])
    /\ UNCHANGED << pc, chains, filter, handshake, registry, workers, next_id,
                    cache, subscriptions, subq, cmd_q, expired, height, last, handled >>

\* On a chain, a client's state stops satisfying the policy.
Expire ==
    /\ pc \in {"subs", "cmd"}
    /\ filter
    /\ ninput < MaxInputs
    /\ ninput' = ninput + 1
    /\ \E k \in Expiring \ expired : expired' = expired \cup {k}
    /\ UNCHANGED << pc, chains, filter, handshake, registry, workers, next_id,
                    cache, subscriptions, subq, worker_msg, cmd_q, live, inbox,
                    height, last, handled >>

Next ==
    \/ Startup
    \/ PollBatch
    \/ NoBatch
    \/ PollWorkerMsg
    \/ NoWorkerMsg
    \/ PollCmd
    \/ NoCmd
    \/ EmitBatch
    \/ SendCmd
    \/ WorkerRecv
    \/ WorkerStop
    \/ Expire

Spec == Init /\ [][Next]_vars

\* ------------------------------------------------- relay_on_object alone
\* relay_on_object as a function of the supervisor's state and its arguments:
\* the supervisor is put in one of the states below and relay_on_object is
\* applied to a chain id and an Object.

\* Config.chains: the two chains of the start, the first one with a wider
\* packet filter, one chain removed, one chain added.
FilterChains ==
    { InitChains,
      << [id |-> "A", allow |-> {"c0", "c1"}], [id |-> "B", allow |-> {"c0"}] >>,
      << [id |-> "B", allow |-> {"c0"}] >>,
      InitChains \o << [id |-> "C", allow |-> {"c0"}] >> }

\* FilterPolicy caches: nothing, Allow or Deny for the clients between A and B.
FilterCaches ==
    { [k \in ClientKeys |->
          IF k = << "A", "B" >> THEN x
          ELSE IF k = << "B", "A" >> THEN y ELSE "None"] :
        x, y \in {"None", "Allow", "Deny"} }

FilterInit ==
    /\ pc = "relay"
    /\ chains \in FilterChains
    /\ filter \in BOOLEAN
    /\ handshake = FALSE
    /\ registry \in SUBSET ConfigIds(chains)
    /\ workers = {}
    /\ next_id = 1
    /\ cache \in IF filter THEN FilterCaches ELSE {[k \in ClientKeys |-> "None"]}
    /\ subscriptions = << >>
    /\ subq = [c \in ChainIds |-> << >>]
    /\ worker_msg = << >>
    /\ cmd_q = << >>
    /\ live = {}
    /\ inbox = [i \in 1 .. MaxWorkerId |-> << >>]
    /\ expired \in IF filter THEN SUBSET Expiring ELSE {{}}
    /\ height = [c \in ChainIds |-> 0]
    /\ ninput = 0
    /\ last = [op |-> "init"]
    /\ handled = [c \in ChainIds |-> 0]

\* One call of relay_on_object(chain_id, object).
Relay ==
    /\ pc = "relay"
    /\ \E c \in ChainIds, o \in Objects, fails \in FailSets :
         \E r \in { relay_on_object(Sup, c, o, fails) } :
            /\ Install(r.st)
            /\ last' = [op |-> "relay", chain |-> c, object |-> o, down |-> fails,
                        allow |-> r.allow, asked |-> r.asked]
    /\ pc' = "done"
    /\ UNCHANGED << filter, handshake, subscriptions, subq, worker_msg, cmd_q,
                    expired, height, ninput, handled >>

FilterNext == Relay

FilterSpec == FilterInit /\ [][FilterNext]_vars

\* --------------------------------------------------- collect_events alone
\* collect_events as a function of the WorkerMap, the handshake setting and
\* the batch: the supervisor is put in a state with one batch of chain A
\* waiting, collect_events is applied to the batch, and then the batch is
\* handled.

\* The events of the batches: one of each arm of the match, well-formed or
\* with attributes that the Object constructors reject, and one kind that no
\* arm matches.
ClassKinds ==
    ConnectionOpenKinds \cup ChannelOpenKinds
    \cup {"UpdateClient", "OpenAckChannel", "OpenConfirmChannel", "SendPacket",
          "ChainError"}

ClassEvents ==
    {NewBlockEv}
    \cup { Ev(k, "B", IF k \in {"UpdateClient"} \cup ConnectionOpenKinds
                      THEN NoId ELSE "c0", ok) :
             k \in ClassKinds, ok \in BOOLEAN }

ClassEventLists ==
    UNION { [1 .. n -> ClassEvents] : n \in 0 .. MaxEvents }

\* A WorkerMap whose workers were spawned for the objects of q in that order,
\* the WorkerIds counting from 1.
Numbered(q) == { [id |-> i, object |-> q[i]] : i \in DOMAIN q }

\* The WorkerMaps the batch can arrive at: any of a client worker and a packet
\* worker between A and B.
ClassWorkers ==
    { Numbered(q) : q \in { << >>,
                            << Obj("Client", "A", "B", NoId) >>,
                            << Obj("Packet", "A", "B", "c0") >>,
                            << Obj("Client", "A", "B", NoId),
                               Obj("Packet", "A", "B", "c0") >> } }

CollectInit ==
    /\ pc = "classify"
    /\ chains = InitChains
    /\ filter = FALSE
    /\ handshake \in BOOLEAN
    /\ registry = {"A", "B"}
    /\ workers \in ClassWorkers
    /\ next_id = Cardinality(workers) + 1
    /\ cache = [k \in ClientKeys |-> "None"]
    /\ subscriptions = << "A" >>
    /\ \E evs \in ClassEventLists :
          subq = [c \in ChainIds |->
                    IF c = "A" THEN << Batch(1, evs, "none") >> ELSE << >>]
    /\ worker_msg = << >>
    /\ cmd_q = << >>
    /\ live = workers
    /\ inbox = [i \in 1 .. MaxWorkerId |-> << >>]
    /\ expired = {}
    /\ height = [c \in ChainIds |-> IF c = "A" THEN 1 ELSE 0]
    /\ ninput = 0
    /\ last = [op |-> "init"]
    /\ handled = [c \in ChainIds |-> 0]

\* One call of collect_events(src_chain, batch) on the batch that waits.
Classify ==
    /\ pc = "classify"
    /\ \E c \in Range(subscriptions) :
         /\ subq[c] # << >>
         /\ last' = [op |-> "collect", chain |-> c, batch |-> Head(subq[c]),
                     collected |-> collect_events(workers, c, Head(subq[c]))]
    /\ pc' = "subs"
    /\ UNCHANGED << chains, filter, handshake, registry, workers, next_id, cache,
                    subscriptions, subq, worker_msg, cmd_q, live, inbox, expired,
                    height, ninput, handled >>

CollectNext ==
    \/ Classify
    \/ PollBatch

CollectSpec == CollectInit /\ [][CollectNext]_vars

\* ------------------------------------------------------------- properties

\* The steps of the reactor, told apart from the environment's steps.
BatchHandled == pc = "subs" /\ pc' = "wmsg" /\ subq' # subq
StoppedHandled == pc = "wmsg" /\ pc' = "cmd" /\ worker_msg # << >>
CmdHandled == pc = "cmd" /\ pc' = "subs" /\ cmd_q # << >>

\* C1: at most one live worker per Object at any instant: the WorkerMap holds
\* at most one worker per Object, and no two workers that were spawned and
\* have not stopped yet share an Object.
C1_AtMostOneLiveWorkerPerObject ==
    /\ \A w1, w2 \in workers : w1.object = w2.object => w1 = w2
    /\ \A w1, w2 \in live : w1.object = w2.object => w1 = w2

\* C2: handling Stopped(id, object) removes the entry of object iff the worker
\* stored for object has this id, and nothing else; a worker with a larger id
\* stored for the same object stays in the map.
C2_RemoveStoppedIffSameId ==
    [][ StoppedHandled =>
          LET msg == Head(worker_msg)
              o == msg.object
          IN  /\ IF WorkersContains(workers, o) /\ HandleOf(workers, o).id = msg.id
                 THEN /\ ~WorkersContains(workers', o)
                      /\ workers' = workers \ {HandleOf(workers, o)}
                 ELSE workers' = workers
              /\ \A w \in workers :
                    (w.object = o /\ w.id > msg.id) => w \in workers'
      ]_vars

\* A stale Stopped was handled while a newer worker holds the object.
C2_Witness ==
    /\ last.op = "stopped"
    /\ \E w \in workers : w.object = last.object /\ w.id > last.id

\* C3: when Remove(id) is handled for a chain of Config, afterwards Config
\* has no id, no Object of the WorkerMap has id as source or destination,
\* the Registry holds no handle for id, and the effect is ConfigChanged.
C3_RemoveChainPostconditions ==
    [][ (CmdHandled /\ Head(cmd_q).op = "Remove"
            /\ has_chain(chains, Head(cmd_q).config.id)) =>
          LET id == Head(cmd_q).config.id
          IN  /\ ~has_chain(chains', id)
              /\ \A w \in workers' : ~Mentions(w.object, id)
              /\ id \notin registry'
              /\ last'.effect = "ConfigChanged"
      ]_vars

\* A Remove that dropped workers of the chain was handled.
C3_Witness ==
    /\ last.op = "cmd"
    /\ last.cmd.op = "Remove"
    /\ last.effect = "ConfigChanged"
    /\ last.dropped # {}

\* C4: Add(c) for a chain Config has and Remove(id) for a chain Config lacks
\* return Nothing and leave Config, Registry, WorkerMap and the subscription
\* list as they were; so an Add or a Remove handled a second time changes
\* nothing.
C4_RedundantCommandsAreNoOps ==
    [][ CmdHandled =>
          LET cmd == Head(cmd_q)
              id == cmd.config.id
              down == last'.down
          IN  /\ (\/ cmd.op = "Add" /\ has_chain(chains, id)
                  \/ cmd.op = "Remove" /\ ~has_chain(chains, id)) =>
                    /\ last'.effect = "Nothing"
                    /\ chains' = chains
                    /\ registry' = registry
                    /\ workers' = workers
                    /\ subscriptions' = subscriptions
              /\ cmd.op \in {"Add", "Remove"} =>
                    LET again == CmdStep(Sup', subscriptions', cmd, down, down)
                    IN  /\ again.effect = "Nothing"
                        /\ again.st = Sup'
                        /\ again.subs = subscriptions'
      ]_vars

\* An Add for a configured, reachable chain was handled.
C4_Witness ==
    /\ last.op = "cmd"
    /\ last.cmd.op = "Add"
    /\ last.cmd.config.id \notin last.down
    /\ last.effect = "Nothing"
    /\ has_chain(chains, last.cmd.config.id)
    /\ workers # {}

\* C5: when Add(c) is handled for a chain Config lacks and the Registry fails
\* to spawn its runtime, Config, Registry and WorkerMap are as before, no
\* worker is spawned, the effect is Nothing and the subscription list is not
\* rebuilt.
C5_AddRollsBackOnSpawnFailure ==
    [][ (CmdHandled /\ Head(cmd_q).op = "Add"
            /\ ~has_chain(chains, Head(cmd_q).config.id)
            /\ Head(cmd_q).config.id \in last'.down) =>
          /\ chains' = chains
          /\ registry' = registry
          /\ workers' = workers
          /\ next_id' = next_id
          /\ live' = live
          /\ last'.effect = "Nothing"
          /\ last'.rebuilt = "no"
          /\ subscriptions' = subscriptions
          /\ subq' = subq
      ]_vars

\* An Add for a new chain whose runtime did not start was handled.
C5_Witness ==
    /\ last.op = "cmd"
    /\ last.cmd.op = "Add"
    /\ last.cmd.config.id \in last.down
    /\ ~has_chain(chains, last.cmd.config.id)
    /\ last.effect = "Nothing"
    /\ workers # {}

\* C6: when the runtime of c.id starts, handling Update(c) leaves the Config,
\* Registry and WorkerMap that handling Remove(c.id) and then Add(c) leaves,
\* and its effect is ConfigChanged iff one of the two steps' is.
C6_UpdateIsRemoveThenAdd ==
    [][ (CmdHandled /\ Head(cmd_q).op = "Update"
            /\ Head(cmd_q).config.id \notin last'.down) =>
          LET c == Head(cmd_q).config
              down == last'.down
              r == CmdStep(Sup, subscriptions, Cmd("Remove", c, TRUE), down, down)
              a == CmdStep(r.st, r.subs, Cmd("Add", c, TRUE), down, down)
          IN  /\ chains' = a.st.chains
              /\ registry' = a.st.registry
              /\ workers' = a.st.workers
              /\ subscriptions' = a.subs
              /\ last'.effect =
                    IF r.effect = "ConfigChanged" \/ a.effect = "ConfigChanged"
                    THEN "ConfigChanged" ELSE "Nothing"
      ]_vars

\* An Update that removed a chain with workers and added it again was handled.
C6_Witness ==
    /\ last.op = "cmd"
    /\ last.cmd.op = "Update"
    /\ last.cmd.config.id \notin last.down
    /\ last.effect = "ConfigChanged"
    /\ last.dropped # {}
    /\ has_chain(chains, last.cmd.config.id)


\* C7: with the global filter disabled, relay_on_object returns true for
\* every chain id and every Object, and consults neither
\* packets_on_channel_allowed nor the FilterPolicy (whose cache, like the rest
\* of the supervisor's state, it leaves as it was).
C7_NoFilterAllowsAll ==
    [][ (pc = "relay" /\ ~filter) =>
          /\ last'.allow
          /\ last'.asked = "none"
          /\ Sup' = Sup
      ]_vars

\* Without filter, relay_on_object was applied to a packet object on a channel
\* that the chain's packet filter does not list, and allowed it.
C7_Witness ==
    /\ pc = "done"
    /\ ~filter
    /\ last.op = "relay"
    /\ last.object.variant = "Packet"
    /\ last.object.chan = "c1"
    /\ ~packets_on_channel_allowed(chains, last.chain, last.object.chan)
    /\ last.allow

\* C8: with the filter enabled, relay_on_object denies a Packet object whose
\* channel packets_on_channel_allowed rejects, without consulting the
\* FilterPolicy; in every other case it consults the FilterPolicy and returns
\* true exactly when the control method returns Ok(Allow), false when it
\* returns Deny or an error.
C8_FilterDecision ==
    [][ (pc = "relay" /\ filter) =>
          LET c == last'.chain
              o == last'.object
              p == Control(Sup, o, last'.down)
          IN  IF o.variant = "Packet"
                 /\ ~packets_on_channel_allowed(chains, c, o.chan)
              THEN /\ ~last'.allow
                   /\ last'.asked = "channel"
                   /\ Sup' = Sup
              ELSE /\ last'.asked = "policy"
                   /\ Sup' = p.st
                   /\ last'.allow <=> (p.perm = "Allow")
                   /\ p.perm \in {"Deny", "Err"} => ~last'.allow
      ]_vars

\* With the filter, relay_on_object denied a packet object on the word of the
\* channel filter, the policy holding a cached Allow for its client.
C8_Witness ==
    /\ pc = "done"
    /\ filter
    /\ last.op = "relay"
    /\ last.object = Obj("Packet", "A", "B", "c1")
    /\ last.chain = "A"
    /\ last.asked = "channel"
    /\ ~last.allow
    /\ cache[<< "A", "B" >>] = "Allow"

\* C9: the permission cache is invalidated on chain removal: once Remove(id)
\* has been handled, the cache holds no permission computed for a client on
\* chain id.
C9_CacheInvalidatedOnRemoval ==
    (last.op = "cmd" /\ last.cmd.op = "Remove" /\ last.effect = "ConfigChanged") =>
        \A k \in ClientKeys : k[1] = last.cmd.config.id => cache[k] = "None"

\* The messages a step appended to a worker's inbound channel, and those of
\* them that carry events.
Appended(id) == SubSeq(inbox'[id], Len(inbox[id]) + 1, Len(inbox'[id]))
EventsSent(id) == SelectSeq(Appended(id), LAMBDA m : m.kind = "IbcEvents")

\* The step created no worker for o and sent no events to its worker.
NotDispatched(o) ==
    /\ WorkersContains(workers', o) =>
          /\ WorkersContains(workers, o)
          /\ HandleOf(workers', o) = HandleOf(workers, o)
    /\ WorkersContains(workers, o) => EventsSent(HandleOf(workers, o).id) = << >>

\* The handle of a chain resolves through the Registry.
Resolves(id, fails) == RegistryGetOrSpawn(Sup, id, fails).ok

\* C10, as claimed: when a non-error batch from chain C is handled, for every
\* (object, events) entry of per_object: if relay_on_object denies the object,
\* no worker is created and nothing is sent; otherwise, when both handles
\* resolve, a worker for the object is in the WorkerMap afterwards and (its
\* channel being open and not full) receives exactly one message with the
\* batch height, the object's events and C.
C10_EveryEntryDispatched ==
    [][ (BatchHandled /\ last'.batch.err = "none") =>
          LET c == last'.chain
              b == last'.batch
              down == last'.down
              per == collect_events(workers, c, b).per_object
          IN  \A o \in DOMAIN per :
                IF ~relay_on_object(Sup, c, o, down).allow
                THEN NotDispatched(o)
                ELSE (Resolves(o.src, down) /\ Resolves(o.dst, down)) =>
                       /\ WorkersContains(workers', o)
                       /\ LET w == HandleOf(workers', o)
                          IN  (w \in workers => CanSend(Sup, w)) =>
                                EventsSent(w.id) = << EventsMsg(b.height, per[o], c) >>
      ]_vars

LoopEnded(e) == e.out \in {"no_src", "no_dst", "send_failed"}

\* C10, amended: the entries of per_object are visited one by one in some
\* order, and the first entry whose handles do not resolve or whose send fails
\* ends the loop. A visited entry that relay_on_object denies gets no worker
\* and no message; a visited entry that is allowed and whose handles resolve
\* has a worker in the WorkerMap afterwards (reused or new), which receives
\* exactly one message with the batch height, the entry's events and C unless
\* its channel is closed or full. The entries that are not visited get no
\* worker and no message.
C10_DispatchedUntilFirstError ==
    [][ (BatchHandled /\ last'.batch.err = "none") =>
          LET c == last'.chain
              b == last'.batch
              down == last'.down
              log == last'.log
              per == collect_events(workers, c, b).per_object
              visited == { log[i].object : i \in DOMAIN log }
          IN  /\ visited \subseteq DOMAIN per
              /\ Cardinality(visited) = Len(log)
              /\ \A i \in DOMAIN log : LoopEnded(log[i]) => i = Len(log)
              /\ visited # DOMAIN per => (log # << >> /\ LoopEnded(log[Len(log)]))
              /\ \A o \in DOMAIN per \ visited : NotDispatched(o)
              /\ \A i \in DOMAIN log :
                    LET e == log[i]
                        o == e.object
                        allowed == relay_on_object(Sup, c, o, down).allow
                        resolved == Resolves(o.src, down) /\ Resolves(o.dst, down)
                    IN  CASE e.out = "denied" -> ~allowed /\ NotDispatched(o)
                          [] e.out \in {"no_src", "no_dst"} ->
                                allowed /\ ~resolved /\ NotDispatched(o)
                          [] e.out = "send_failed" ->
                                /\ allowed /\ resolved
                                /\ WorkersContains(workers, o)
                                /\ ~CanSend(Sup, HandleOf(workers, o))
                                /\ NotDispatched(o)
                          [] e.out = "sent" ->
                                /\ allowed /\ resolved
                                /\ WorkersContains(workers', o)
                                /\ LET w == HandleOf(workers', o)
                                   IN  /\ w \in workers \/ w.id >= next_id
                                       /\ w \in workers => CanSend(Sup, w)
                                       /\ EventsSent(w.id) =
                                            << EventsMsg(b.height, per[o], c) >>
                          [] OTHER -> FALSE
      ]_vars

\* A batch with two entries was handled: the first entry visited was
\* dispatched to a new worker, and the destination of the second one did not
\* resolve.
C10_Witness ==
    /\ last.op = "batch"
    /\ last.batch.err = "none"
    /\ Len(last.batch.events) = 2
    /\ Len(last.log) = 2
    /\ last.log[1].out = "sent"
    /\ last.log[1].worker \in { w.id : w \in workers }
    /\ last.log[2].out = "no_dst"
    /\ ~last.ok

\* The NewBlock messages a step appended to a worker's inbound channel.
NewBlockSent(id) == SelectSeq(Appended(id), LAMBDA m : m.kind = "NewBlock")

HasNewBlock(b) == \E i \in DOMAIN b.events : b.events[i].kind = "NewBlock"

\* The loop over per_object returned an error.
DispatchFailed(log) == log # << >> /\ LoopEnded(log[Len(log)])

\* Once the per_object loop is over, the worker's task runs and its inbound
\* channel has room for one more message.
RoomAfterDispatch(w) ==
    w \in live' /\ Len(inbox[w.id]) + Len(EventsSent(w.id)) < InboxCap

\* C11, as claimed: when a non-error batch from chain C that contains a
\* NewBlock is handled, every worker whose source chain is C (its channel
\* being open and not full) is forwarded the NewBlock at the batch height.
C11_NewBlockForwardedToAll ==
    [][ (BatchHandled /\ last'.batch.err = "none" /\ HasNewBlock(last'.batch)) =>
          \A w \in to_notify(workers', last'.chain) :
             RoomAfterDispatch(w) =>
                NewBlockSent(w.id) =
                   << NewBlockMsg(last'.batch.height, last'.chain) >>
      ]_vars

\* C11, amended: the NewBlock of a batch from C is forwarded only when the
\* loop over per_object ended without an error; then the workers of
\* to_notify(C) are visited in some order until the first failed send: a
\* worker that is sent to receives exactly one NewBlock message at the batch
\* height, all of them are sent to when every channel is open and has room,
\* and a worker left out means the handler returned an error. No other worker
\* and no batch without NewBlock gets a NewBlock message.
C11_NewBlockForwardedUntilFirstError ==
    [][ (BatchHandled /\ last'.batch.err = "none") =>
          LET c == last'.chain
              b == last'.batch
              targets == to_notify(workers', c)
              sent_to == { w \in targets : w.id \in last'.notified }
          IN  /\ last'.notified \subseteq { w.id : w \in targets }
              /\ \A i \in DOMAIN inbox :
                    NewBlockSent(i) =
                       IF i \in last'.notified
                       THEN << NewBlockMsg(b.height, c) >> ELSE << >>
              /\ (~HasNewBlock(b) \/ DispatchFailed(last'.log)) =>
                    last'.notified = {}
              /\ (HasNewBlock(b) /\ ~DispatchFailed(last'.log)) =>
                    /\ \A w \in sent_to : RoomAfterDispatch(w)
                    /\ (\A w \in targets : RoomAfterDispatch(w)) => sent_to = targets
                    /\ sent_to # targets => ~last'.ok
      ]_vars

\* A batch with a NewBlock was handled without an error and the NewBlock was
\* forwarded to a worker whose source chain is the batch's chain.
C11_Witness ==
    /\ last.op = "batch"
    /\ last.batch.err = "none"
    /\ HasNewBlock(last.batch)
    /\ last.ok
    /\ last.notified # {}
    /\ \E w \in workers : w.id \in last.notified /\ w.object.src = last.chain

\* The ClearPendingPackets messages a step appended to a worker's channel.
ClearSent(id) ==
    SelectSeq(Appended(id), LAMBDA m : m.kind = "ClearPendingPackets")

\* The step handled Err(SubscriptionCancelled) from a subscription.
CancelHandled == BatchHandled /\ last'.batch.err = "SubscriptionCancelled"

\* C12, as claimed: when the subscription of chain A delivers
\* Err(SubscriptionCancelled(A)), each worker of workers_for_chain(A) (its
\* channel being open and not full) receives exactly one ClearPending signal,
\* no entry leaves the WorkerMap, Config and Registry are unchanged and the
\* loop goes on.
C12_ClearPendingToAll ==
    [][ CancelHandled =>
          /\ \A w \in workers_for_chain(workers, last'.chain) :
                CanSend(Sup, w) =>
                   ClearSent(w.id) = << ClearPendingMsg(last'.chain) >>
          /\ workers' = workers
          /\ chains' = chains
          /\ registry' = registry
          /\ pc' = "wmsg"
      ]_vars

\* C12, amended: the workers of workers_for_chain(A) are visited in some
\* order until the first failed send: a worker that is sent to receives
\* exactly one ClearPending signal, all of them are sent to when every
\* channel is open and has room, and a worker left out means the handler
\* returned an error (which is logged). No other message is sent, no entry
\* leaves or enters the WorkerMap, Config, Registry and the subscription list
\* are unchanged and the loop goes on.
C12_ClearPendingUntilFirstError ==
    [][ CancelHandled =>
          LET c == last'.chain
              targets == workers_for_chain(workers, c)
              sent_to == { w \in targets : w.id \in last'.notified }
          IN  /\ last'.notified \subseteq { w.id : w \in targets }
              /\ \A i \in DOMAIN inbox :
                    Appended(i) =
                       IF i \in last'.notified
                       THEN << ClearPendingMsg(c) >> ELSE << >>
              /\ \A w \in sent_to : CanSend(Sup, w)
              /\ (\A w \in targets : CanSend(Sup, w)) => sent_to = targets
              /\ sent_to # targets => ~last'.ok
              /\ workers' = workers
              /\ live' = live
              /\ next_id' = next_id
              /\ chains' = chains
              /\ registry' = registry
              /\ cache' = cache
              /\ subscriptions' = subscriptions
              /\ pc' = "wmsg"
      ]_vars

\* The cancellation of a chain's subscription was handled and the signal went
\* to a worker whose source is the chain and to one whose destination it is.
C12_Witness ==
    /\ last.op = "batch"
    /\ last.batch.err = "SubscriptionCancelled"
    /\ last.ok
    /\ \E w1, w2 \in workers :
          /\ w1.object.src = last.chain
          /\ w2.object.dst = last.chain
          /\ {w1.id, w2.id} \subseteq last.notified
          /\ inbox[w1.id] = << ClearPendingMsg(last.chain) >>
          /\ inbox[w2.id] = << ClearPendingMsg(last.chain) >>

\* C13: handling DumpState(reply) returns Nothing and changes nothing of the
\* supervisor; when reply can take it, the one snapshot sent holds exactly
\* the chain ids of the Registry and the Objects of the WorkerMap as the
\* commands handled before have left them (no chain that was removed from
\* Config, no Object that mentions one); when reply is full or closed nothing
\* is sent and nothing else happens. After Add(C) and Remove(A), handled in
\* this order from chains {A, B}, the snapshot shows chains {B, C} and no
\* Object that mentions A.
C13_DumpStateSnapshot ==
    [][ /\ (CmdHandled /\ Head(cmd_q).op = "DumpState") =>
             /\ last'.effect = "Nothing"
             /\ last'.rebuilt = "no"
             /\ Sup' = Sup
             /\ subscriptions' = subscriptions
             /\ subq' = subq
             /\ IF Head(cmd_q).open
                THEN /\ last'.reply.sent
                     /\ last'.reply.chains = registry
                     /\ last'.reply.workers = WorkerObjects(workers)
                ELSE last'.reply = NoReply
             /\ \A id \in ChainIds \ ConfigIds(chains) :
                   /\ id \notin last'.reply.chains
                   /\ \A o \in last'.reply.workers : ~Mentions(o, id)
        /\ (CmdHandled /\ Head(cmd_q).op = "Add" /\ Head(cmd_q).config.id = "C"
               /\ registry = {"A", "B"} /\ last'.effect = "ConfigChanged") =>
             LET down == last'.down
                 r == CmdStep(Sup', subscriptions',
                              Cmd("Remove", Config("A", {"c0"}), TRUE), down, down)
                 d == CmdStep(r.st, r.subs,
                              Cmd("DumpState", Config("A", {"c0"}), TRUE), down, down)
             IN  /\ d.effect = "Nothing"
                 /\ d.st = r.st
                 /\ d.reply.sent
                 /\ d.reply.chains = {"B", "C"}
                 /\ d.reply.workers = WorkerObjects(r.st.workers)
                 /\ \A o \in d.reply.workers : ~Mentions(o, "A")
      ]_vars

\* A DumpState was handled after an Add(C): its snapshot shows the new chain
\* and a worker that the Add spawned.
C13_Witness ==
    /\ last.op = "cmd"
    /\ last.cmd.op = "DumpState"
    /\ last.reply.sent
    /\ "C" \in last.reply.chains
    /\ last.reply.chains = registry
    /\ \E o \in last.reply.workers : Mentions(o, "C")

\* C14: when a command returns ConfigChanged and the rebuild of the
\* subscriptions reports NoChainsAvailable, the supervisor keeps the previous
\* subscription list, that list is empty (it holds no subscription of a chain
\* that is not in Config any more), and the loop goes on.
C14_NoChainsKeepsEmptyList ==
    [][ (CmdHandled /\ last'.rebuilt = "NoChainsAvailable") =>
          /\ subscriptions' = subscriptions
          /\ subscriptions' = << >>
          /\ \A c \in Range(subscriptions') : has_chain(chains', c)
          /\ pc' = "subs"
      ]_vars

\* C15, as claimed: run never returns because of an error that is not Fatal
\* (NoChainsAvailable among them).
C15_RunNeverReturns == pc # "exit"

\* C15, amended: run returns an error that is not Fatal in one case only:
\* the init_subscriptions before the loop finds no chain runtime available.
\* Once the loop is entered, no failed runtime spawn, subscription error,
\* denied object, failed send or NoChainsAvailable ends it: the handler's
\* error is dropped and the loop takes its next step.
C15_OnlyStartupReturns ==
    [][ /\ pc = "start" =>
             /\ pc' \in {"subs", "exit"}
             /\ pc' = "exit" <=> registry' = {}
        /\ pc = "subs" => pc' \in {"subs", "wmsg"}
        /\ pc = "wmsg" => pc' \in {"wmsg", "cmd"}
        /\ pc = "cmd" => pc' \in {"cmd", "subs"}
        /\ (pc = "subs" /\ subq' # subq /\ ninput' = ninput) => BatchHandled
        /\ (pc = "cmd" /\ cmd_q' # cmd_q) => CmdHandled
      ]_vars

\* The rebuild after a command found no chain runtime available, and the
\* supervisor is at its next subscription poll.
C15_Witness ==
    /\ pc = "subs"
    /\ last.op = "cmd"
    /\ last.effect = "ConfigChanged"
    /\ last.rebuilt = "NoChainsAvailable"
    /\ registry = {}

\* The messages of a channel that come from batches (events and NewBlock).
OfBatches(q) == SelectSeq(q, LAMBDA m : m.kind \in {"IbcEvents", "NewBlock"})

\* In every worker's inbound channel the messages of one source chain are in
\* non-decreasing height order, and none is above the last batch processed.
InboxOrdered(ib, hd) ==
    \A i \in DOMAIN ib :
       LET q == OfBatches(ib[i])
       IN  /\ \A j \in DOMAIN q : q[j].height <= hd[q[j].chain]
           /\ \A j, k \in DOMAIN q :
                 (j < k /\ q[j].chain = q[k].chain) => q[j].height <= q[k].height

\* C16: the batches of one chain are processed in the order its subscription
\* produced them: the batch handled is the oldest one waiting, it is not
\* below the last batch of the chain that was processed nor above one that
\* waits, and every message the step sends carries its height and its chain;
\* so the messages a worker is sent for one source chain are in
\* non-decreasing height order (sends may fail, none is reordered).
C16_BatchesInArrivalOrder ==
    [][ (BatchHandled /\ last'.batch.err = "none") =>
          LET c == last'.chain
              b == last'.batch
          IN  /\ b = Head(subq[c])
              /\ subq'[c] = Tail(subq[c])
              /\ \A i \in DOMAIN subq'[c] : b.height <= subq'[c][i].height
              /\ handled[c] <= b.height
              /\ handled' = [handled EXCEPT ![c] = b.height]
              /\ \A i \in DOMAIN inbox :
                    /\ Len(inbox[i]) <= Len(inbox'[i])
                    /\ SubSeq(inbox'[i], 1, Len(inbox[i])) = inbox[i]
                    /\ \A j \in DOMAIN Appended(i) :
                          /\ Appended(i)[j].kind \in {"IbcEvents", "NewBlock"}
                          /\ Appended(i)[j].height = b.height
                          /\ Appended(i)[j].chain = c
              /\ InboxOrdered(inbox', handled')
      ]_vars

\* The second batch of a chain was handled after the first one, and its
\* events were sent to a worker that was there before.
C16_Witness ==
    /\ last.op = "batch"
    /\ last.batch.err = "none"
    /\ last.batch.height = 2
    /\ handled[last.chain] = 2
    /\ last.log # << >>
    /\ last.log[1].out = "sent"
    /\ \E w \in workers :
          /\ w.id = last.log[1].worker
          /\ w.id < next_id - 1
          /\ inbox[w.id] # << >>
          /\ inbox[w.id][Len(inbox[w.id])].height = 2
          /\ inbox[w.id][Len(inbox[w.id])].chain = last.chain

\* The workers the step put in the WorkerMap whose source chain is c.
SpawnedFor(c) == { w \in workers' \ workers : w.object.src = c }

\* A NewBlock that a step forwards comes after everything else the step does:
\* the batch is the oldest one of its chain (the batches before it have been
\* processed), every entry of per_object has been visited without an error,
\* and in the worker's channel the NewBlock follows the batch's events.
NewBlockComesLast ==
    LET c == last'.chain
        b == last'.batch
        log == last'.log
        per == collect_events(workers, c, b).per_object
    IN  \A i \in DOMAIN inbox :
           NewBlockSent(i) # << >> =>
              /\ b = Head(subq[c])
              /\ handled[c] <= b.height
              /\ \A j \in DOMAIN subq'[c] : b.height <= subq'[c][j].height
              /\ ~DispatchFailed(log)
              /\ { log[j].object : j \in DOMAIN log } = DOMAIN per
              /\ NewBlockSent(i) = << NewBlockMsg(b.height, c) >>
              /\ Appended(i) = EventsSent(i) \o NewBlockSent(i)

C18_SubscriptionsFollowCommand ==
    [][ (CmdHandled /\ last'.effect = "ConfigChanged") =>
          LET cmd == Head(cmd_q)
              id == cmd.config.id
          IN  /\ pc' = "subs"
              /\ cmd.op = "Add" => id \in Range(subscriptions')
              /\ (cmd.op = "Remove" /\ chains' # << >>) =>
                    id \notin Range(subscriptions')
      ]_vars

NotNewBlock(e) == e.kind # "NewBlock"

\* C19: collect_events puts no NewBlock event in per_object and at most one
\* in new_block; new_block is present iff the batch holds a NewBlock event,
\* and per_object is what it is for the batch without its NewBlock events.
C19_NewBlockKeptApart ==
    [][ pc = "classify" =>
          LET c == last'.chain
              b == last'.batch
              col == last'.collected
              rest == [b EXCEPT !.events = SelectSeq(@, NotNewBlock)]
          IN  /\ b = Head(subq[c])
              /\ col.height = b.height
              /\ col.chain_id = c
              /\ Len(col.new_block) <= 1
              /\ col.new_block # << >> <=> HasNewBlock(b)
              /\ \A i \in DOMAIN col.new_block : col.new_block[i].kind = "NewBlock"
              /\ \A o \in DOMAIN col.per_object :
                    /\ col.per_object[o] # << >>
                    /\ \A i \in DOMAIN col.per_object[o] :
                          NotNewBlock(col.per_object[o][i])
              /\ col.per_object = collect_events(workers, c, rest).per_object
              /\ collect_events(workers, c, rest).new_block = << >>
      ]_vars

\* collect_events was applied to a batch with two NewBlock events: new_block
\* holds one and per_object is empty.
C19_Witness ==
    /\ pc = "subs"
    /\ last.op = "collect"
    /\ last.batch.events = << NewBlockEv, NewBlockEv >>
    /\ last.collected.new_block = << NewBlockEv >>
    /\ DOMAIN last.collected.per_object = {}

\* The batch holds no event but UpdateClient events that an arm of the match
\* routes to an object.
OnlyUpdateClientRoutable(b, c, ws) ==
    \A i \in DOMAIN b.events :
       b.events[i].kind # "UpdateClient" => Routes(b.events[i], c, ws) = << >>

\* C20: collect_events puts an UpdateClient event in per_object, under its
\* Client object, exactly when the object is well-formed and a worker for it
\* is in the WorkerMap at that time; and handling a batch whose only routable
\* events are UpdateClient events puts no new worker in the WorkerMap.
C20_UpdateClientNeedsWorker ==
    [][ /\ pc = "classify" =>
             LET c == last'.chain
                 b == last'.batch
                 per == last'.collected.per_object
             IN  /\ \A o \in DOMAIN per : \A i \in DOMAIN per[o] :
                       per[o][i].kind = "UpdateClient" =>
                          /\ o = ObjectFor("Client", per[o][i], c)
                          /\ WorkersContains(workers, o)
                 /\ \A i \in DOMAIN b.events :
                       LET e == b.events[i]
                           o == ObjectFor("Client", e, c)
                       IN  e.kind = "UpdateClient" =>
                              IF e.ok /\ WorkersContains(workers, o)
                              THEN /\ o \in DOMAIN per
                                   /\ \E j \in DOMAIN per[o] : per[o][j] = e
                              ELSE \A x \in DOMAIN per :
                                      \A j \in DOMAIN per[x] : per[x][j] # e
        /\ (BatchHandled /\ last'.batch.err = "none"
               /\ OnlyUpdateClientRoutable(last'.batch, last'.chain, workers)) =>
             /\ workers' = workers
             /\ live' = live
             /\ next_id' = next_id
             /\ \A i \in DOMAIN last'.log :
                   /\ last'.log[i].object.variant = "Client"
                   /\ WorkersContains(workers, last'.log[i].object)
      ]_vars

\* A batch of UpdateClient events was handled: the events went to the client
\* worker that was in the map, and no worker was created.
C20_Witness ==
    /\ pc = "wmsg"
    /\ last.op = "batch"
    /\ last.batch.events # << >>
    /\ \A i \in DOMAIN last.batch.events : last.batch.events[i].kind = "UpdateClient"
    /\ Len(last.log) = 1
    /\ last.log[1].out = "sent"
    /\ last.log[1].worker = 1
    /\ inbox[1] = << EventsMsg(1, SelectSeq(last.batch.events, LAMBDA e : e.ok), "A") >>
    /\ next_id = Cardinality(workers) + 1

\* How many times the event e stands under the object o in per_object.
Count(q, e) == Len(SelectSeq(q, LAMBDA x : x = e))
Occurrences(per, o, e) == IF o \in DOMAIN per THEN Count(per[o], e) ELSE 0

HandshakeVariants == {"Connection", "Channel"}

\* The one object a well-formed connection or channel open event belongs to.
HandshakeObject(e, c) ==
    ObjectFor(IF e.kind \in ConnectionOpenKinds THEN "Connection" ELSE "Channel",
              e, c)

\* C21: with handshake_enabled false, collect_events puts no Connection and no
\* Channel object in per_object and drops every connection open and channel
\* open event, and handling the batch creates no Connection or Channel worker;
\* with handshake_enabled true, each well-formed connection open (channel
\* open) event stands under its Connection (Channel) object, once per
\* occurrence in the batch, and under no other object.
C21_HandshakeGated ==
    [][ /\ pc = "classify" =>
             LET c == last'.chain
                 b == last'.batch
                 per == last'.collected.per_object
             IN  /\ ~handshake =>
                       \A o \in DOMAIN per :
                          /\ o.variant \notin HandshakeVariants
                          /\ \A i \in DOMAIN per[o] :
                                per[o][i].kind \notin
                                   ConnectionOpenKinds \cup ChannelOpenKinds
                 /\ handshake =>
                       \A i \in DOMAIN b.events :
                          LET e == b.events[i]
                          IN  (e.ok /\ e.kind \in ConnectionOpenKinds \cup ChannelOpenKinds) =>
                                 \A o \in DOMAIN per \cup {HandshakeObject(e, c)} :
                                    Occurrences(per, o, e) =
                                       IF o = HandshakeObject(e, c)
                                       THEN Count(b.events, e) ELSE 0
        /\ (BatchHandled /\ ~handshake) =>
             /\ \A w \in workers' \ workers : w.object.variant \notin HandshakeVariants
             /\ \A i \in DOMAIN last'.log :
                   last'.log[i].object.variant \notin HandshakeVariants
      ]_vars

\* With handshake_enabled true, a batch of a connection open event and a
\* channel open event was handled: a Connection worker and a Channel worker
\* were created and each received its event.
C21_Witness ==
    /\ pc = "wmsg"
    /\ handshake
    /\ last.op = "batch"
    /\ last.batch.events = << Ev("OpenAckConnection", "B", NoId, TRUE),
                              Ev("OpenInitChannel", "B", "c0", TRUE) >>
    /\ \E w1, w2 \in workers :
          /\ w1.object = Obj("Connection", "A", "B", NoId)
          /\ w2.object = Obj("Channel", "A", "B", "c0")
          /\ inbox[w1.id] = << EventsMsg(1, << last.batch.events[1] >>, "A") >>
          /\ inbox[w2.id] = << EventsMsg(1, << last.batch.events[2] >>, "A") >>

ChannelOpenedKinds == {"OpenAckChannel", "OpenConfirmChannel"}

\* The objects a well-formed OpenAckChannel or OpenConfirmChannel event of
\* chain c is to be found under.
ChannelOpenedObjects(e, c) ==
    {ObjectFor("Client", e, c), ObjectFor("Packet", e, c)}
    \cup (IF handshake /\ e.kind = "OpenAckChannel"
          THEN {ObjectFor("Channel", e, c)} ELSE {})

\* C22: collect_events puts a well-formed OpenAckChannel event under its
\* Client object and its Packet object, and under its Channel object iff
\* handshake_enabled; a well-formed OpenConfirmChannel event under its Client
\* object and its Packet object and never under a Channel object. Each of
\* these objects holds the event once per occurrence in the batch and no other
\* object holds it; when a batch of one such event is handled, each of the
\* objects has a worker that received the event in one message.
C22_ChannelOpenedRoutings ==
    [][ /\ pc = "classify" =>
             LET c == last'.chain
                 b == last'.batch
                 per == last'.collected.per_object
             IN  \A i \in DOMAIN b.events :
                    LET e == b.events[i]
                    IN  (e.ok /\ e.kind \in ChannelOpenedKinds) =>
                           /\ Cardinality(ChannelOpenedObjects(e, c)) =
                                 IF handshake /\ e.kind = "OpenAckChannel"
                                 THEN 3 ELSE 2
                           /\ \A o \in DOMAIN per \cup ChannelOpenedObjects(e, c)
                                       \cup {ObjectFor("Channel", e, c)} :
                                 Occurrences(per, o, e) =
                                    IF o \in ChannelOpenedObjects(e, c)
                                    THEN Count(b.events, e) ELSE 0
        /\ (BatchHandled /\ last'.batch.err = "none"
               /\ Len(last'.batch.events) = 1
               /\ last'.batch.events[1].ok
               /\ last'.batch.events[1].kind \in ChannelOpenedKinds) =>
             LET e == last'.batch.events[1]
                 c == last'.chain
             IN  /\ WorkerObjects(workers') =
                       WorkerObjects(workers) \cup ChannelOpenedObjects(e, c)
                 /\ \A w \in workers' :
                       EventsSent(w.id) =
                          IF w.object \in ChannelOpenedObjects(e, c)
                          THEN << EventsMsg(last'.batch.height, << e >>, c) >>
                          ELSE << >>
      ]_vars

\* With handshake_enabled true, a batch of one OpenAckChannel event was
\* handled: the WorkerMap holds a Client, a Packet and a Channel worker for
\* the channel and each holds the event once.
C22_Witness ==
    /\ pc = "wmsg"
    /\ handshake
    /\ last.op = "batch"
    /\ last.batch.events = << Ev("OpenAckChannel", "B", "c0", TRUE) >>
    /\ Cardinality(workers) = 3
    /\ WorkerObjects(workers) =
          {Obj("Client", "A", "B", NoId), Obj("Packet", "A", "B", "c0"),
           Obj("Channel", "A", "B", "c0")}
    /\ \A w \in workers :
          inbox[w.id] = << EventsMsg(1, last.batch.events, "A") >>

\* Every chain of the Registry and both chains of every Object of the
\* WorkerMap are in Config.
ConfigCovers(cs, reg, ws) ==
    /\ reg \subseteq ConfigIds(cs)
    /\ \A w \in ws : {w.object.src, w.object.dst} \subseteq ConfigIds(cs)

\* The iteration ended before the worker of its object was looked up.
NotResolved(e) == e.out \in {"denied", "empty", "no_src", "no_dst"}

\* C23: in every state of the reactor the chains of the Registry and the
\* chains of the Objects of the WorkerMap are in Config; and a batch, whatever
\* chain it comes from, creates no worker whose Object mentions a chain that
\* is not in Config: the iteration for such an Object ends before a worker is
\* looked up, and when it got as far as resolving the handles, with the error
\* of the Registry.
C23_ConfigCoversRegistryAndWorkers ==
    /\ ConfigCovers(chains, registry, workers)
    /\ [][ /\ ConfigCovers(chains', registry', workers')
           /\ BatchHandled =>
                /\ chains' = chains
                /\ \A w \in workers' \ workers :
                      {w.object.src, w.object.dst} \subseteq ConfigIds(chains)
                /\ last'.batch.err = "none" =>
                      \A i \in DOMAIN last'.log :
                         LET e == last'.log[i]
                         IN  ({e.object.src, e.object.dst} \subseteq ConfigIds(chains)) \/
                                /\ NotResolved(e)
                                /\ e.out \in {"no_src", "no_dst"} =>
                                      \/ e.object.src \notin registry'
                                      \/ e.object.dst \notin registry'
         ]_vars

\* B was removed and then a batch of A with a packet event for B was handled:
\* resolving B failed, and no worker and no runtime of B exists.
C23_Witness ==
    /\ pc = "wmsg"
    /\ last.op = "batch"
    /\ last.chain = "A"
    /\ "A" \in ConfigIds(chains)
    /\ "B" \notin ConfigIds(chains)
    /\ \E i \in DOMAIN last.log :
          /\ last.log[i].object.dst = "B"
          /\ last.log[i].out = "no_dst"
    /\ "B" \notin last.down
    /\ "B" \notin registry
    /\ \A w \in workers : ~Mentions(w.object, "B")

\* C24: handling Update(c) for a chain of Config whose runtime does not start
\* again leaves the removal in place: c.id is in neither Config nor Registry,
\* no worker mentions it, Config is the old one without the chain's entry, and
\* the effect is ConfigChanged (the subscriptions are rebuilt); handling
\* Update(c) for a chain that is not in Config leaves what handling Add(c)
\* leaves, with the same effect.
C24_UpdateNotAtomic ==
    [][ (CmdHandled /\ Head(cmd_q).op = "Update") =>
          LET c == Head(cmd_q).config
              down == last'.down
          IN  /\ (has_chain(chains, c.id) /\ c.id \in down) =>
                    /\ ~has_chain(chains', c.id)
                    /\ chains' = SelectSeq(chains, LAMBDA x : x.id # c.id)
                    /\ c.id \notin registry'
                    /\ \A w \in workers' : ~Mentions(w.object, c.id)
                    /\ last'.dropped = workers_for_chain(workers, c.id)
                    /\ last'.effect = "ConfigChanged"
                    /\ last'.rebuilt # "no"
                    /\ c.id \notin Range(subscriptions') \/
                          last'.rebuilt = "NoChainsAvailable"
              /\ ~has_chain(chains, c.id) =>
                    LET a == CmdStep(Sup, subscriptions, Cmd("Add", c, TRUE),
                                     down, down)
                    IN  /\ chains' = a.st.chains
                        /\ registry' = a.st.registry
                        /\ workers' = a.st.workers
                        /\ next_id' = a.st.next_id
                        /\ cache' = a.st.cache
                        /\ live' = a.st.live
                        /\ inbox' = a.st.inbox
                        /\ subscriptions' = a.subs
                        /\ last'.effect = a.effect
                        /\ last'.rebuilt = a.rebuilt
      ]_vars

\* An Update for a chain of Config that had workers was handled while the
\* chain's runtime did not start: the chain and its workers are gone and the
\* effect is ConfigChanged.
C24_Witness ==
    /\ last.op = "cmd"
    /\ last.cmd.op = "Update"
    /\ last.cmd.config.id \in last.down
    /\ last.effect = "ConfigChanged"
    /\ last.dropped # {}
    /\ ~has_chain(chains, last.cmd.config.id)
    /\ last.cmd.config.id \notin registry
    /\ chains # << >>

=============================================================================
